---- MODULE Spec2Model ----
(***************************************************************************)
(* A model of the Rightmove crawler: the file cache (src/src/caches.py),   *)
(* the Google Maps directions client (src/src/apis.py), the helpers        *)
(* (src/src/helpers.py) and the scraper (src/src/scrapers.py).             *)
(*                                                                         *)
(* Python values are modelled as follows.  JSON values are tagged records  *)
(* (Null, Str, Num, Obj, Arr); a Python call that may raise yields Ok(v)   *)
(* or Raise(exc); Python's None is the string None where a plain scalar is *)
(* stored.  File contents are sequences of tokens.                         *)
(***************************************************************************)
EXTENDS Integers, Sequences, FiniteSets, TLC

VARIABLES
    hashmap,     \* FileCache: content of _hashmap.json, key -> path
    files,       \* FileCache: payload files on disk, path -> content
    cacheOut,    \* last FileCache operation and what it returned
    written,     \* history: key -> arguments of the last create_cache_file
    hasCache,    \* GoogleMapsApi._file_cache is set
    apiOut,      \* last get_directions call and what it returned
    succeeded,   \* history: url -> result of the last fully successful call
    steps,       \* number of operations performed so far
    world,       \* the site and the operator: displayed result count, property
                 \* cards per results page, the urls the operator passes
    crawlPc,     \* RightmoveScraper: "new", "paging" (inside _get_results),
                 \* "ready" (constructed) or "failed" (__init__ raised)
    constructed, \* __init__ has returned
    self_url,    \* self._url
    self_status_code, \* self._status_code
    self_results, \* self._results
    acc,         \* _get_results: the local results
    loop_p,      \* _get_results: the loop variable
    pageCount,   \* _get_results: self.page_count, the bound of the loop
    crawlErr,    \* the exception the last __init__ / refresh_data raised
    requested,   \* history: the search-page requests of the current crawl
    scraped,     \* history: the rows _get_page returned in the current crawl
    stoppedAt,   \* history: the loop index whose request was not answered 200
    google_maps_api, \* _get_page: self.google_maps_api is a GoogleMapsApi
    google_maps_directions_config, \* self.google_maps_directions_config
    data,        \* _get_page: the local dict of columns, in key order
    pagePc,      \* _get_page: "idle", "scraping" (in the loop over the links),
                 \* "done" (DataFrame returned) or "raised"
    pageErr,     \* the exception that left _get_page
    seen,        \* history: the listings processed and what became of each
    csv_files,   \* history: the calls of save_results_to_csv and what each wrote
    exportOut,   \* last save_results_to_csv call and how it ended
    config_yaml, \* main.py: config.yaml as the run finds it
    mainPc,      \* main.py: "idle", "start", "validated", "crawled" or "ended"
    reports,     \* main.py: the critical messages logged by is_valid_config
    network,     \* main.py: a network request has been issued
    csv_written, \* main.py: the CSV file has been written
    helperOut,   \* last call of a helper of helpers.py and what it returned
    hashmapFile, \* FileCache: _hashmap.json is "ok" (holds hashmap), "empty"
                 \* (truncated by a writer) or "corrupt", and its size
    procs,       \* FileCache: for each process, where it is in
                 \* create_cache_file and its local hashmap_data
    inserted     \* history: the keys whose insertion into the hashmap completed

cacheVars == <<hashmap, files, cacheOut, written>>
apiVars == <<hasCache, apiOut, succeeded>>
crawlVars == <<world, crawlPc, constructed, self_url, self_status_code, self_results,
               acc, loop_p, pageCount, crawlErr, requested, scraped, stoppedAt>>
pageVars == <<google_maps_api, google_maps_directions_config, data, pagePc,
              pageErr, seen>>
exportVars == <<csv_files, exportOut>>
mainVars == <<config_yaml, mainPc, reports, network, csv_written>>
helperVars == <<helperOut>>
procVars == <<hashmapFile, procs, inserted>>
restVars == <<exportVars, mainVars, helperVars, procVars>>
vars == <<hashmap, files, cacheOut, written, hasCache, apiOut, succeeded, steps,
          world, crawlPc, constructed, self_url, self_status_code, self_results,
          acc, loop_p, pageCount, crawlErr, requested, scraped, stoppedAt,
          google_maps_api, google_maps_directions_config, data, pagePc,
          pageErr, seen, csv_files, exportOut, config_yaml, mainPc, reports,
          network,
          csv_written, helperOut, hashmapFile, procs, inserted>>

\* ------------------------------------------------------------------------
\* Python values

None == "None"

Null == [t |-> "null"]
Str(x) == [t |-> "str", s |-> x]
Num(x) == [t |-> "num", n |-> x]
Obj(f) == [t |-> "obj", m |-> f]
Arr(q) == [t |-> "list", l |-> q]
NotJson == [t |-> "invalid"]
\* numpy.nan
NaN == [t |-> "nan"]
EmptyMap == [k \in {} |-> Null]

Ok(x) == [ok |-> TRUE, v |-> x]
Raise(e) == [ok |-> FALSE, exc |-> e]

\* d[key] for a string key
Subscript(d, key) ==
    IF d.t = "obj"
    THEN IF key \in DOMAIN d.m THEN Ok(d.m[key]) ELSE Raise("KeyError")
    ELSE Raise("TypeError")

\* d[0]; a JSON object has string keys only, so the integer key is missing
Index0(d) ==
    CASE d.t = "list" -> IF Len(d.l) > 0 THEN Ok(d.l[1]) ELSE Raise("IndexError")
      [] d.t = "obj" -> Raise("KeyError")
      [] d.t \in {"null", "num"} -> Raise("TypeError")

\* d.get(key, default)
DictGet(d, key, default) ==
    IF d.t = "obj"
    THEN Ok(IF key \in DOMAIN d.m THEN d.m[key] ELSE default)
    ELSE Raise("AttributeError")

\* bool(v)
Truthy(v) ==
    CASE v.t = "null" -> FALSE
      [] v.t = "nan" -> TRUE
      [] v.t = "str" -> v.s # ""
      [] v.t = "num" -> v.n # 0
      [] v.t = "obj" -> DOMAIN v.m # {}
      [] v.t = "list" -> Len(v.l) > 0

\* the Python scalar a JSON string or null decodes to
PyVal(v) == IF v.t = "null" THEN None ELSE v.s

\* ------------------------------------------------------------------------
\* helpers.py

RECURSIVE nested_key_exists(_, _)
nested_key_exists(dictionary, nested_keys) ==
    IF nested_keys = <<>>
    THEN Ok(TRUE)
    ELSE LET r == Subscript(dictionary, Head(nested_keys))
         IN IF r.ok
            THEN nested_key_exists(r.v, Tail(nested_keys))
            ELSE IF r.exc = "KeyError" THEN Ok(FALSE) ELSE r

\* ------------------------------------------------------------------------
\* caches.py: FileCache

BasePath == "cache/api/google_maps"
NAMESPACE_URL == "ns:URL"
NAMESPACE_DNS == "ns:DNS"

NoContent == [some |-> FALSE, content |-> <<>>]
SomeContent(c) == [some |-> TRUE, content |-> c]

\* uuid.uuid5: a deterministic name-based id, taken to be collision free
uuid5(namespace, name) == <<"uuid5", namespace, name>>

generate_file_pathname_for_uuid(uuid_str, extension) ==
    <<BasePath, uuid_str, extension>>

\* the path create_cache_file derives for a key
cache_path(hash_key, extension, uuid_namespace) ==
    generate_file_pathname_for_uuid(uuid5(uuid_namespace, hash_key), extension)

\* a rewrite of the hashmap that keeps nothing but the new entry
add_file_to_hashmap_alone(hm, hash_key, extension, uuid_namespace) ==
    [k \in {hash_key} |-> cache_path(hash_key, extension, uuid_namespace)]

\* _add_file_to_hashmap: read the whole hashmap, set the key, write it back
add_file_to_hashmap(hm, hash_key, extension, uuid_namespace) ==
    [k \in DOMAIN hm \cup {hash_key} |->
        IF k = hash_key
        THEN cache_path(hash_key, extension, uuid_namespace)
        ELSE hm[k]]

\* a write that keeps an existing file instead of truncating it
write_file_keep(fs, path, content) ==
    [p \in DOMAIN fs \cup {path} |-> IF p \in DOMAIN fs THEN fs[p] ELSE content]

\* open(path, 'w').write(content)
write_file(fs, path, content) ==
    [p \in DOMAIN fs \cup {path} |-> IF p = path THEN content ELSE fs[p]]

\* create_cache_file: the hashmap entry is written first, then the payload
create_cache_file(hm, fs, hash_key, content, extension, uuid_namespace) ==
    LET hm1 == add_file_to_hashmap(hm, hash_key, extension, uuid_namespace)
    IN [hashmap |-> hm1, files |-> write_file(fs, hm1[hash_key], content)]

get_cached_file_content(hm, fs, hash_key) ==
    IF hash_key \notin DOMAIN hm
    THEN NoContent
    ELSE IF hm[hash_key] \notin DOMAIN fs
         THEN NoContent
         ELSE SomeContent(fs[hm[hash_key]])

\* ------------------------------------------------------------------------
\* json.dumps / json.loads of a flat object of strings and nulls

Lit(x) == [q |-> FALSE, s |-> x]
Quoted(x) == [q |-> TRUE, s |-> x]

json_scalar(x) == IF x = None THEN Lit("null") ELSE Quoted(x)

\* a serialisation that puts each value under the other key
json_dumps_swapped(direction) ==
    << Lit("{"), Quoted("distance"), Lit(":"), json_scalar(direction.duration),
       Lit(","), Quoted("duration"), Lit(":"), json_scalar(direction.distance),
       Lit("}") >>

\* json.dumps(direction, separators=(',', ':'))
json_dumps(direction) ==
    << Lit("{"), Quoted("distance"), Lit(":"), json_scalar(direction.distance),
       Lit(","), Quoted("duration"), Lit(":"), json_scalar(direction.duration),
       Lit("}") >>

\* the members of the object text toks, read from token i on
RECURSIVE json_members(_, _)
json_members(toks, i) ==
    IF i + 2 > Len(toks)
    THEN EmptyMap
    ELSE LET rest == json_members(toks, i + 4)
             key == toks[i].s
             val == IF toks[i + 2].q THEN toks[i + 2].s ELSE None
         IN [k \in DOMAIN rest \cup {key} |->
                IF k \in DOMAIN rest THEN rest[k] ELSE val]

\* json.loads(content)
json_loads(content) == json_members(content, 2)

\* ------------------------------------------------------------------------
\* FileCache operations as actions

MaxCacheOps == 3

CacheKeys == {"key1", "key2"}
CacheContents == {<<>>, <<Lit("a")>>, <<Lit("b")>>}
Extensions == {"json", "xml"}
Namespaces == {NAMESPACE_URL, NAMESPACE_DNS}

NoCacheOp ==
    [op |-> "none", key |-> None, ret |-> NoContent, sameArgs |-> FALSE,
     pathBefore |-> <<>>, pathsBefore |-> {}]

\* FileCache.__init__ / _setup on a fresh directory: an empty hashmap file
CacheSetup ==
    /\ hashmap = EmptyMap
    /\ files = EmptyMap
    /\ cacheOut = NoCacheOp
    /\ written = EmptyMap

CreateCacheFile(hash_key, content, extension, uuid_namespace) ==
    LET r == create_cache_file(hashmap, files, hash_key, content, extension,
                               uuid_namespace)
        args == [content |-> content, extension |-> extension,
                 namespace |-> uuid_namespace]
    IN /\ hashmap' = r.hashmap
       /\ files' = r.files
       /\ cacheOut' = [op |-> "create", key |-> hash_key, ret |-> NoContent,
                       sameArgs |-> /\ hash_key \in DOMAIN written
                                    /\ written[hash_key].extension = extension
                                    /\ written[hash_key].namespace = uuid_namespace,
                       pathBefore |-> IF hash_key \in DOMAIN hashmap
                                      THEN hashmap[hash_key] ELSE <<>>,
                       pathsBefore |-> DOMAIN files]
       /\ written' = [k \in DOMAIN written \cup {hash_key} |->
                        IF k = hash_key THEN args ELSE written[k]]

GetCachedFileContent(hash_key) ==
    /\ cacheOut' = [op |-> "get", key |-> hash_key,
                    ret |-> get_cached_file_content(hashmap, files, hash_key),
                    sameArgs |-> FALSE, pathBefore |-> <<>>, pathsBefore |-> {}]
    /\ UNCHANGED <<hashmap, files, written>>

\* ------------------------------------------------------------------------
\* apis.py: GoogleMapsApi

API_BASE_URL == "https://maps.googleapis.com/maps/api"
ApiKey == "API_KEY"
response_type == "json"

\* urllib.parse.urlencode keeps the parameters in insertion order; the url is
\* kept as the list of its (name, value) parts
build_api_call_url(params, service) ==
    <<<<"base", API_BASE_URL \o "/" \o service \o "/" \o response_type \o "?">>>>
    \o params \o <<<<"key", ApiKey>>>>

\* get_directions, lines 57-66: mandatory and optional parameters
directions_params(origin, place_id, mode, arrival_time) ==
    <<<<"origin", origin>>, <<"destination", "place_id:" \o place_id>>>>
    \o (IF mode # None THEN <<<<"mode", mode>>>> ELSE <<>>)
    \o (IF arrival_time # None THEN <<<<"arrival_time", arrival_time>>>> ELSE <<>>)

\* _get_cache: None without a cache or without (non-empty) content
get_cache(hm, fs, cache, url) ==
    IF ~cache
    THEN [some |-> FALSE, v |-> EmptyMap]
    ELSE LET content == get_cached_file_content(hm, fs, url)
         IN IF ~content.some \/ content.content = <<>>
            THEN [some |-> FALSE, v |-> EmptyMap]
            ELSE [some |-> TRUE, v |-> json_loads(content.content)]

\* _save_cache: nothing without a cache or with an empty response
save_cache(hm, fs, cache, url, response) ==
    IF ~cache \/ response = <<>>
    THEN [hashmap |-> hm, files |-> fs]
    ELSE create_cache_file(hm, fs, url, response, response_type, NAMESPACE_URL)

\* response.json()
response_json(body) ==
    IF body.t = "invalid" THEN Raise("JSONDecodeError") ELSE Ok(body)

\* get_directions, lines 92-98: routes[0].legs[0], a KeyError gives {}
first_leg(content) ==
    LET routes == DictGet(content, "routes", Arr(<<>>))
        route == IF routes.ok THEN Index0(routes.v) ELSE routes
        legs == IF route.ok THEN DictGet(route.v, "legs", Obj(EmptyMap)) ELSE route
        leg == IF legs.ok THEN Index0(legs.v) ELSE legs
    IN IF ~leg.ok /\ leg.exc = "KeyError" THEN Ok(Obj(EmptyMap)) ELSE leg

\* leg.get(name, {}).get('text')
leg_text(leg, name) ==
    LET part == DictGet(leg, name, Obj(EmptyMap))
    IN IF part.ok THEN DictGet(part.v, "text", Null) ELSE part

NoDirection == [distance |-> None, duration |-> None]

\* get_directions, lines 80-119: the part after the HTTP response arrived.
\* Yields what is returned or raised, the source line of the return statement
\* taken (0 when an exception leaves the function) and the cache afterwards.
directions_from_response(hm, fs, cache, url, status_code, body) ==
    LET same(o, n) == [out |-> o, line |-> n, hashmap |-> hm, files |-> fs]
        content == response_json(body)
        status == IF content.ok THEN DictGet(content.v, "status", Null) ELSE content
        leg == first_leg(content.v)
        hasDuration == nested_key_exists(leg.v, <<"duration", "text">>)
        hasDistance == nested_key_exists(leg.v, <<"distance", "text">>)
        duration == leg_text(leg.v, "duration")
        distance == leg_text(leg.v, "distance")
        direction == [distance |-> PyVal(distance.v), duration |-> PyVal(duration.v)]
        saved == save_cache(hm, fs, cache, url, json_dumps(direction))
    IN IF status_code # 200 THEN same(Ok(NoDirection), 83)
       ELSE IF ~status.ok THEN same(status, 0)
       ELSE IF status.v.t # "str" \/ status.v.s # "OK" THEN same(Ok(NoDirection), 89)
       ELSE IF ~leg.ok THEN same(leg, 0)
       ELSE IF ~hasDuration.ok THEN same(hasDuration, 0)
       ELSE IF ~hasDuration.v THEN same(Ok(NoDirection), 102)
       ELSE IF ~hasDistance.ok THEN same(hasDistance, 0)
       ELSE IF ~hasDistance.v THEN same(Ok(NoDirection), 105)
       ELSE IF ~duration.ok THEN same(duration, 0)
       ELSE IF ~distance.ok THEN same(distance, 0)
       ELSE [out |-> Ok(direction), line |-> 119,
             hashmap |-> saved.hashmap, files |-> saved.files]

\* get_directions: the cached direction if there is one, else the API call
get_directions(hm, fs, cache, origin, place_id, mode, arrival_time, status_code, body) ==
    LET url == build_api_call_url(
                   directions_params(origin, place_id, mode, arrival_time),
                   "directions")
        cached == get_cache(hm, fs, cache, url)
        r == directions_from_response(hm, fs, cache, url, status_code, body)
    IN IF cached.some /\ DOMAIN cached.v # {}
       THEN [out |-> Ok(cached.v), line |-> 74, hashmap |-> hm, files |-> fs,
             http |-> FALSE, url |-> url]
       ELSE [out |-> r.out, line |-> r.line, hashmap |-> r.hashmap,
             files |-> r.files, http |-> TRUE, url |-> url]

\* ------------------------------------------------------------------------
\* The directions provider: HTTP statuses and response bodies

Text(x) == Obj([text |-> Str(x)])
OkBody(leg) ==
    Obj([status |-> Str("OK"), routes |-> Arr(<<Obj([legs |-> Arr(<<leg>>)])>>)])

Bodies ==
    << Obj([status |-> Str("REQUEST_DENIED"), error_message |-> Str("denied")]),
       Obj(EmptyMap),
       Obj([status |-> Str("OK")]),
       Obj([status |-> Str("OK"), routes |-> Arr(<<>>)]),
       Obj([status |-> Str("OK"), routes |-> Arr(<<Obj(EmptyMap)>>)]),
       Obj([status |-> Str("OK"), routes |-> Arr(<<Obj([legs |-> Arr(<<>>)])>>)]),
       OkBody(Obj(EmptyMap)),
       OkBody(Obj([distance |-> Text("5.2 km")])),
       OkBody(Obj([duration |-> Obj(EmptyMap), distance |-> Text("5.2 km")])),
       OkBody(Obj([duration |-> Text("12 mins")])),
       OkBody(Obj([duration |-> Text("12 mins"), distance |-> Obj(EmptyMap)])),
       OkBody(Obj([duration |-> Str("12 mins"), distance |-> Text("5.2 km")])),
       OkBody(Obj([duration |-> Text("12 mins"), distance |-> Str("5.2 km")])),
       OkBody(Obj([duration |-> Text("12 mins"), distance |-> Text("5.2 km")])),
       OkBody(Obj([duration |-> Text("25 mins"), distance |-> Text("9.8 km")])),
       OkBody(Obj([duration |-> Obj([text |-> Null]), distance |-> Text("5.2 km")])),
       Arr(<<>>),
       NotJson >>

MaxApiCalls == 4

\* what the provider may answer: a status code and a body
Responses ==
    << [status_code |-> 404, body |-> NotJson],
       [status_code |-> 500, body |-> Bodies[14]] >>
    \o [i \in 1..Len(Bodies) |-> [status_code |-> 200, body |-> Bodies[i]]]

\* the arguments get_directions is called with
DirectionArgs ==
    { [origin |-> "51.5,-0.12", place_id |-> "place1", mode |-> None,
       arrival_time |-> None],
      [origin |-> "51.5,-0.12", place_id |-> "place1", mode |-> "transit",
       arrival_time |-> "1700000000"] }

\* ------------------------------------------------------------------------
\* GoogleMapsApi operations as actions

NoCall ==
    [called |-> FALSE, url |-> <<>>, out |-> Ok(NoDirection), line |-> 0,
     http |-> FALSE, response |-> 0, hadContent |-> FALSE,
     hmBefore |-> EmptyMap, fsBefore |-> EmptyMap,
     prior |-> [some |-> FALSE, v |-> NoDirection]]

\* GoogleMapsApi.__init__, with or without a file cache
ApiSetup ==
    /\ hasCache \in BOOLEAN
    /\ apiOut = NoCall
    /\ succeeded = EmptyMap

ApiIdle ==
    /\ hasCache = FALSE
    /\ apiOut = NoCall
    /\ succeeded = EmptyMap

\* one call of get_directions; the provider would answer Responses[i]
GetDirections(args, i) ==
    \E r \in {get_directions(hashmap, files, hasCache, args.origin, args.place_id,
                             args.mode, args.arrival_time,
                             Responses[i].status_code, Responses[i].body)} :
       /\ hashmap' = r.hashmap
       /\ files' = r.files
       /\ apiOut' = [called |-> TRUE, url |-> r.url, out |-> r.out, line |-> r.line,
                     http |-> r.http,
                     response |-> IF r.http THEN i ELSE 0,
                     hadContent |-> get_cached_file_content(hashmap, files, r.url).some,
                     hmBefore |-> hashmap, fsBefore |-> files,
                     prior |-> IF r.url \in DOMAIN succeeded
                               THEN [some |-> TRUE, v |-> succeeded[r.url]]
                               ELSE [some |-> FALSE, v |-> NoDirection]]
       /\ succeeded' = IF r.line = 119
                       THEN [u \in DOMAIN succeeded \cup {r.url} |->
                                IF u = r.url THEN r.out.v ELSE succeeded[u]]
                       ELSE succeeded
       /\ UNCHANGED <<hasCache, cacheOut, written>>

\* the environment removes a payload file from the cache directory; apiOut
\* describes the call that has just returned, so it is cleared
DeleteFile(path) ==
    /\ path \in DOMAIN files
    /\ files' = [p \in DOMAIN files \ {path} |-> files[p]]
    /\ apiOut' = NoCall
    /\ UNCHANGED <<hashmap, cacheOut, written, hasCache, succeeded>>

\* ------------------------------------------------------------------------
\* scrapers.py: RightmoveScraper, construction, refresh and pagination

MAX_ACCESSIBLE_PAGES == 42
MAX_RESULT_PER_PAGE == 24

MaxCards == 1
MaxCrawlPages == 5
MaxResultCount == 2000

\* a url is the list of its parts: protocol, host, search type, page, query
NoUrl == <<>>
RightmoveHost == "://www.rightmove.co.uk/"
FindPage == "/find.html?"
SearchUrl(protocol, type) == <<protocol, RightmoveHost, type, FindPage, "x=1">>

protocols == <<"http", "https">>
types == <<"property-to-rent", "property-for-sale", "new-homes-for-sale">>

GoodUrls ==
    { SearchUrl("https", "property-to-rent"),
      SearchUrl("http", "property-for-sale"),
      SearchUrl("https", "new-homes-for-sale") }
BadUrls ==
    { <<"https", "://example.com", FindPage>>,
      SearchUrl("https", "commercial-property-to-let"),
      <<"https", RightmoveHost, "property-to-rent", "/map.html?", "x=1">> }
Urls == GoodUrls \cup BadUrls

\* displayed result counts of a small site: 0 to MaxCrawlPages result pages
CrawlCounts ==
    {MAX_RESULT_PER_PAGE * k : k \in 0..(MaxCrawlPages - 1)}
    \cup {MAX_RESULT_PER_PAGE * (MaxCrawlPages - 1) + 4}
PageStatusCodes == {200, 404}

\* str.startswith
startswith(str, prefix) ==
    Len(prefix) <= Len(str) /\ SubSeq(str, 1, Len(prefix)) = prefix

\* _validate_url: the conditions list and the test that raises
validate_url_conditions(u, sc) ==
    [k \in 1..(Len(protocols) * Len(types) + 1) |->
        IF k <= Len(protocols) * Len(types)
        THEN startswith(u, << protocols[((k - 1) \div Len(types)) + 1], RightmoveHost,
                              types[((k - 1) % Len(types)) + 1], FindPage >>)
        ELSE sc = 200]

any(conditions) == \E k \in DOMAIN conditions : conditions[k]

\* _validate_url: TRUE when no ValueError is raised
validate_url(u, sc) == any(validate_url_conditions(u, sc))

\* a page count that drops the partly filled last page
page_count_floor(results_count_display) ==
    LET n == results_count_display \div MAX_RESULT_PER_PAGE
    IN IF n > MAX_ACCESSIBLE_PAGES THEN MAX_ACCESSIBLE_PAGES ELSE n

\* page_count
page_count(results_count_display) ==
    LET whole == results_count_display \div MAX_RESULT_PER_PAGE
        n == IF results_count_display % MAX_RESULT_PER_PAGE > 0
             THEN whole + 1 ELSE whole
    IN IF n > MAX_ACCESSIBLE_PAGES THEN MAX_ACCESSIBLE_PAGES ELSE n

\* what _get_page may do with a results page that yields the given number of
\* rows: return them, or raise on one of its listings
PageOutcomes(cards) ==
    {[raise |-> FALSE]} \cup (IF cards > 0 THEN {[raise |-> TRUE]} ELSE {})

\* the DataFrame _get_page returns: rows indexed from 0, in card order
page_rows(page, cards) ==
    [i \in 1..cards |-> [index |-> i - 1, page |-> page, card |-> i]]

\* a concatenation that keeps the latest page only
concat_latest(frames, frame) == frame

\* pd.concat([results, temp_df])
concat(frames, frame) == frames \o frame

Now == "now"

\* _clean_results: reset the index, stamp every row with the search date
clean_results(rows) ==
    [i \in 1..Len(rows) |->
        [index |-> i - 1, page |-> rows[i].page, card |-> rows[i].card,
         search_date |-> Now]]

NoIndex == -1
first_request(u) == [url |-> u, index |-> NoIndex]
\* f"{str(self.url)}&index={p * self.MAX_RESULT_PER_PAGE}"
next_page(u, q) == [url |-> u, index |-> q * MAX_RESULT_PER_PAGE]

CrawlNew ==
    /\ crawlPc = "new"
    /\ constructed = FALSE
    /\ self_url = NoUrl
    /\ self_status_code = 0
    /\ self_results = <<>>
    /\ acc = <<>>
    /\ loop_p = 0
    /\ pageCount = 0
    /\ crawlErr = "none"
    /\ requested = <<>>
    /\ scraped = <<>>
    /\ stoppedAt = 0

\* an exception leaves __init__ (no object) or refresh_data (the object stays
\* as it was, with the new self_url and status code)
Raised(exc) ==
    /\ crawlPc' = IF constructed THEN "ready" ELSE "failed"
    /\ crawlErr' = exc
    /\ UNCHANGED <<self_results, constructed>>

\* _get_results returns and the caller stores the table
Finish(rows) ==
    /\ crawlPc' = "ready"
    /\ constructed' = TRUE
    /\ self_results' = clean_results(rows)
    /\ crawlErr' = "none"

\* __init__ / refresh_data from the first request up to the first iteration
\* of the loop of _get_results
StartCrawl(u, sc, outcome) ==
    /\ self_url' = u
    /\ self_status_code' = sc
    /\ requested' = <<first_request(u)>>
    /\ stoppedAt' = 0
    /\ loop_p' = 1
    /\ IF ~validate_url(u, sc)
       THEN /\ Raised("ValueError")
            /\ scraped' = <<>>
            /\ UNCHANGED <<acc, pageCount>>
       ELSE IF outcome.raise
       THEN /\ Raised("PageError")
            /\ scraped' = <<>>
            /\ UNCHANGED <<acc, pageCount>>
       ELSE /\ acc' = page_rows(1, world.cards)
            /\ scraped' = page_rows(1, world.cards)
            /\ pageCount' = page_count(world.count)
            /\ IF 1 < pageCount'
               THEN /\ crawlPc' = "paging"
                    /\ crawlErr' = "none"
                    /\ UNCHANGED <<self_results, constructed>>
               ELSE Finish(acc')

Construct(u, sc, outcome) ==
    /\ crawlPc = "new"
    /\ StartCrawl(u, sc, outcome)
    /\ UNCHANGED world

\* refresh_data(self_url): no self_url, or an empty one, keeps the current self_url
Refresh(u, sc, outcome) ==
    /\ crawlPc = "ready"
    /\ StartCrawl(IF u = NoUrl THEN self_url ELSE u, sc, outcome)
    /\ UNCHANGED world

\* one iteration of the loop of _get_results, and the return if it is the last
FetchPage(sc, outcome) ==
    /\ crawlPc = "paging"
    /\ requested' = Append(requested, next_page(self_url, loop_p))
    /\ UNCHANGED <<world, self_url, self_status_code, pageCount>>
    /\ IF sc # 200
       THEN /\ stoppedAt' = loop_p
            /\ Finish(acc)
            /\ UNCHANGED <<acc, loop_p, scraped>>
       ELSE IF outcome.raise
       THEN /\ Raised("PageError")
            /\ UNCHANGED <<acc, loop_p, scraped, stoppedAt>>
       ELSE /\ acc' = concat(acc, page_rows(loop_p + 1, world.cards))
            /\ scraped' = scraped \o page_rows(loop_p + 1, world.cards)
            /\ loop_p' = loop_p + 1
            /\ UNCHANGED stoppedAt
            /\ IF loop_p + 1 < pageCount
               THEN UNCHANGED <<crawlPc, constructed, self_results, crawlErr>>
               ELSE Finish(acc')

\* ------------------------------------------------------------------------
\* scrapers.py: _get_page and _get_directions_data

MaxListings == 2

BASE_URL == "https://www.rightmove.co.uk"
Pound == "£"

\* a string held as its tokens: words, "," and " " (a run of whitespace)
TextOfTokens(w) == [t |-> "text", w |-> w]

\* the keys of the dict _get_page starts with, in order
DataColumns ==
    << "type", "price", "deposit", "address", "bedroom_count", "bathroom_count",
       "let_available_date", "furnish_type", "let_type", "minimum_term_in_months",
       "latitude", "longitude", "google_maps_link", "images", "url",
       "floorplan_urls", "agent_url" >>
EmptyData == [i \in 1..Len(DataColumns) |-> [key |-> DataColumns[i], cells |-> <<>>]]

\* list(data.keys()).index(key), counted from 1; 0 when the key is missing
KeyIndex(d, key) ==
    IF \E i \in 1..Len(d) : d[i].key = key
    THEN CHOOSE i \in 1..Len(d) : d[i].key = key
    ELSE 0

\* items.insert(pos, (key, [])) with pos the place of minimum_term_in_months
insert_column(d, key) ==
    LET pos == KeyIndex(d, "minimum_term_in_months")
    IN SubSeq(d, 1, pos - 1) \o <<[key |-> key, cells |-> <<>>]>>
       \o SubSeq(d, pos, Len(d))

\* data[key].append(cell)
append_cell(d, key, cell) ==
    [i \in 1..Len(d) |->
        IF d[i].key = key
        THEN [key |-> key, cells |-> Append(d[i].cells, cell)]
        ELSE d[i]]

\* x or default
Or(x, default) == IF Truthy(x) THEN x ELSE default

\* key in d (a str operand is not modelled)
Contains(d, key) ==
    CASE d.t = "obj" -> Ok(key \in DOMAIN d.m)
      [] d.t = "list" -> Ok(\E i \in 1..Len(d.l) : d.l[i] = Str(key))
      [] d.t \in {"null", "num", "nan"} -> Raise("TypeError")

\* the test `key not in d` followed by d.get(key, default)
Field(d, key, default) ==
    LET c == Contains(d, key)
    IN IF c.ok THEN DictGet(d, key, default) ELSE c

\* nested_key_exists(d, [k1, k2]) followed by d.get(k1, {}).get(k2, np.nan)
Field2(d, k1, k2) ==
    LET e == nested_key_exists(d, <<k1, k2>>)
        a == DictGet(d, k1, Obj(EmptyMap))
    IN IF ~e.ok THEN e
       ELSE IF ~a.ok THEN a
       ELSE DictGet(a.v, k2, NaN)

\* [fp.get('url', '') for fp in d.get(key, [])]
url_list(d, key) ==
    LET c == Contains(d, key)
        l == DictGet(d, key, Arr(<<>>))
    IN IF ~c.ok THEN c
       ELSE IF ~l.ok THEN l
       ELSE IF l.v.t # "list" THEN Raise("TypeError")
       ELSE IF \E i \in 1..Len(l.v.l) : l.v.l[i].t # "obj" THEN Raise("AttributeError")
       ELSE Ok(Arr([i \in 1..Len(l.v.l) |-> DictGet(l.v.l[i], "url", Str("")).v]))

\* three digits, zero padded
pad3(k) ==
    IF k < 10 THEN "00" \o ToString(k)
    ELSE IF k < 100 THEN "0" \o ToString(k)
    ELSE ToString(k)

\* "{:,.0f}".format(n) for a whole number n
RECURSIVE thousands(_)
thousands(n) ==
    IF n < 0 THEN "-" \o thousands(0 - n)
    ELSE IF n < 1000 THEN ToString(n)
    ELSE thousands(n \div 1000) \o "," \o pad3(n % 1000)

\* "£{:,.0f}".format(deposit or 0)
format_deposit(deposit) ==
    LET v == Or(deposit, Num(0))
    IN CASE v.t = "nan" -> Ok(Str(Pound \o "nan"))
         [] v.t = "num" -> Ok(Str(Pound \o thousands(v.n)))
         [] v.t = "str" -> Raise("ValueError")
         [] v.t \in {"obj", "list"} -> Raise("TypeError")

\* A coordinate is an integer count of 1/DegreeUnits of a degree, so that
\* 51.5074 is 515074; the arithmetic of deg_to_dms on it is exact.
DegreeUnits == 10000

Abs(x) == IF x < 0 THEN 0 - x ELSE x

\* int(x / y) for y > 0: the quotient cut towards zero
trunc_div(x, y) == IF x < 0 THEN 0 - ((0 - x) \div y) ELSE x \div y

\* helpers.py, deg_to_dms, lines 6-14: d, m, s in hundredths of a second, and
\* the letter picked by the sign of d
dms(deg, type) ==
    LET d == trunc_div(deg, DegreeUnits)
        decimals == deg - d * DegreeUnits
        m == trunc_div(decimals * 60, DegreeUnits)
        s == trunc_div((decimals * 60 - m * DegreeUnits) * 6000, DegreeUnits)
        compass == IF type = "lat" THEN <<"N", "S">> ELSE <<"W", "E">>
    IN [d |-> d, m |-> m, s |-> s, compass_str |-> compass[IF d >= 0 THEN 1 ELSE 2]]

\* '{:.2f}'.format(x) for x given in hundredths
format_2f(hundredths) ==
    ToString(hundredths \div 100) \o "."
    \o ToString((hundredths % 100) \div 10) \o ToString(hundredths % 10)

\* helpers.py, deg_to_dms
deg_to_dms(deg, type) ==
    LET p == dms(deg, type)
    IN ToString(Abs(p.d)) \o "º" \o ToString(Abs(p.m)) \o "'" \o format_2f(Abs(p.s))
       \o "\"" \o p.compass_str

\* GoogleMapsApi.get_google_maps_url
get_google_maps_url(latitude, longitude) ==
    IF latitude.t # "num" \/ longitude.t # "num"
    THEN Raise("TypeError")
    ELSE Ok(Str("https://www.google.com/maps/place/" \o deg_to_dms(latitude.n * DegreeUnits, "lat")
                \o "+" \o deg_to_dms(longitude.n * DegreeUnits, "lon")))

\* str.replace(code, '') on the tokens of a string
RECURSIVE str_replace(_, _)
str_replace(w, code) ==
    IF w = <<>> THEN <<>>
    ELSE IF Head(w) = code THEN str_replace(Tail(w), code)
    ELSE <<Head(w)>> \o str_replace(Tail(w), code)

\* str.rstrip(',')
RECURSIVE rstrip_comma(_)
rstrip_comma(w) ==
    IF w # <<>> /\ w[Len(w)] = ","
    THEN rstrip_comma(SubSeq(w, 1, Len(w) - 1))
    ELSE w

\* helpers.py, replace_all_whitespaces: " ".join(string.split())
RECURSIVE replace_all_whitespaces(_)
replace_all_whitespaces(w) ==
    IF w = <<>> THEN <<>>
    ELSE IF Head(w) = " " THEN replace_all_whitespaces(Tail(w))
    ELSE IF Len(w) >= 2 /\ w[2] = " "
         THEN LET rest == replace_all_whitespaces(Tail(w))
              IN IF rest = <<>> THEN <<Head(w)>> ELSE <<Head(w), " ">> \o rest
    ELSE <<Head(w)>> \o replace_all_whitespaces(Tail(w))

\* f"{code}" for an outcode or incode
code_str(code) == IF code.t = "null" THEN None ELSE code.s

\* _get_page, lines 315-338: the address cell
address_cell(property_data) ==
    LET address_data == DictGet(property_data, "address", Obj(EmptyMap))
        ad == IF address_data.ok THEN address_data.v ELSE Obj(EmptyMap)
        has == Contains(ad, "outcode")
        a == IF has.ok THEN ad ELSE Obj(EmptyMap)
        out_code == DictGet(a, "outcode", Null).v
        in_code == DictGet(a, "incode", Null).v
        display_address == DictGet(a, "displayAddress", TextOfTokens(<<>>)).v
        cleaned == replace_all_whitespaces(rstrip_comma(
                       str_replace(str_replace(display_address.w, out_code.s),
                                   in_code.s)))
        codes == IF Truthy(out_code) \/ Truthy(in_code)
                 THEN <<code_str(out_code) \o code_str(in_code)>> ELSE <<>>
    IN IF ~address_data.ok THEN address_data
       ELSE IF ~has.ok THEN has
       ELSE IF display_address.t # "text" THEN Raise("AttributeError")
       ELSE IF out_code.t # "str" \/ in_code.t # "str" THEN Raise("TypeError")
       ELSE Ok(TextOfTokens(
                codes
                \o (IF codes # <<>> /\ cleaned # <<>> THEN <<",", " ">> ELSE <<>>)
                \o cleaned))

\* f"{latitude},{longitude}"
origin_str(latitude, longitude) ==
    LET f(v) == IF v.t = "num" THEN ToString(v.n) ELSE v.s
    IN f(latitude) \o "," \o f(longitude)

\* rec.get(key) on a direction
direction_get(rec, key) == IF key \in DOMAIN rec THEN rec[key] ELSE None

\* directions_data[key] = value
dict_set(items, key, value) ==
    IF \E i \in 1..Len(items) : items[i].key = key
    THEN [i \in 1..Len(items) |->
             IF items[i].key = key THEN [key |-> key, value |-> value] ELSE items[i]]
    ELSE Append(items, [key |-> key, value |-> value])

\* _get_directions_data, lines 359-370: the loop over the configured requests,
\* from request i on; the provider would answer the k-th request with
\* Responses[resps[k]].  directions_step stores the direction r that
\* get_directions gave for request i and goes on with the next request.
RECURSIVE directions_loop(_, _, _, _, _, _, _)
RECURSIVE directions_step(_, _, _, _, _, _, _)
directions_step(r, cache, config, origin, resps, i, directions_data) ==
    IF ~r.out.ok
    THEN [out |-> r.out, hashmap |-> r.hashmap, files |-> r.files]
    ELSE directions_loop([hashmap |-> r.hashmap, files |-> r.files], cache, config,
             origin, resps, i + 1,
             dict_set(directions_data, config[i].key,
                      [distance |-> direction_get(r.out.v, "distance"),
                       duration |-> direction_get(r.out.v, "duration")]))

directions_loop(disk, cache, config, origin, resps, i, directions_data) ==
    IF i > Len(config)
    THEN [out |-> Ok(directions_data), hashmap |-> disk.hashmap, files |-> disk.files]
    ELSE IF "arrival_time" \notin DOMAIN config[i]
    THEN [out |-> Raise("KeyError"), hashmap |-> disk.hashmap, files |-> disk.files]
    ELSE directions_step(
             get_directions(disk.hashmap, disk.files, cache, origin,
                            config[i].place_id, config[i].mode,
                            config[i].arrival_time,
                            Responses[resps[i]].status_code,
                            Responses[resps[i]].body),
             cache, config, origin, resps, i, directions_data)

\* _get_directions_data
get_directions_data(hm, fs, api, cache, config, latitude, longitude, resps) ==
    IF ~api \/ config = <<>> \/ latitude.t = "null" \/ longitude.t = "null"
    THEN [out |-> Ok(<<>>), hashmap |-> hm, files |-> fs]
    ELSE directions_loop([hashmap |-> hm, files |-> fs], cache, config,
                         origin_str(latitude, longitude), resps, 1, <<>>)

\* f"{duration} ({distance})" with 'Unknown' for a missing or empty part
direction_cell(direction_data) ==
    LET duration == IF direction_data.duration \in {None, ""}
                    THEN "Unknown" ELSE direction_data.duration
        distance == IF direction_data.distance \in {None, ""}
                    THEN "Unknown" ELSE direction_data.distance
    IN Str(duration \o " (" \o distance \o ")")

\* _get_page, lines 295-306: one cell for each direction, in a column created
\* on first use
RECURSIVE add_directions(_, _)
add_directions(d, directions_data) ==
    IF directions_data = <<>>
    THEN d
    ELSE LET key == Head(directions_data).key
             d1 == IF KeyIndex(d, key) = 0 THEN insert_column(d, key) ELSE d
         IN add_directions(
                append_cell(d1, key, direction_cell(Head(directions_data).value)),
                Tail(directions_data))

Cell(key, r) == [key |-> key, r |-> r]

\* the first exception among the steps of a listing, in code order
FirstRaise(cells) ==
    IF \E i \in 1..Len(cells) : ~cells[i].r.ok
    THEN cells[CHOOSE i \in 1..Len(cells) :
                   ~cells[i].r.ok /\ \A j \in 1..(i - 1) : cells[j].r.ok].r
    ELSE Ok(TRUE)

\* data[key].append(value) for each of the cells
append_all(d, cells) ==
    [i \in 1..Len(d) |->
        IF \E k \in 1..Len(cells) : cells[k].key = d[i].key
        THEN [key |-> d[i].key,
              cells |-> Append(d[i].cells,
                          cells[CHOOSE k \in 1..Len(cells) : cells[k].key = d[i].key].r.v)]
        ELSE d[i]]

\* _get_page, lines 215-285: the cells from url to minimum_term_in_months, in
\* code order; the step without a key reads the lettings object
cells_before(property_link, property_data) ==
    LET lettings == DictGet(property_data, "lettings", Obj(EmptyMap))
        lt == IF lettings.ok THEN lettings.v ELSE Obj(EmptyMap)
        let_available_date == Field(lt, "letAvailableDate", Str("Now"))
        deposit == Field(lt, "deposit", NaN)
        minimum_term == Field(lt, "minimumTermInMonths", Num(0))
    IN << Cell("url", Ok(Str(property_link))),
          Cell("type", Field(property_data, "propertySubType", NaN)),
          Cell("price", Field2(property_data, "prices", "primaryPrice")),
          Cell("agent_url", Field2(property_data, "customer", "customerProfileUrl")),
          Cell("floorplan_urls", url_list(property_data, "floorplans")),
          Cell("images", url_list(property_data, "images")),
          Cell("bedroom_count", Field(property_data, "bedrooms", NaN)),
          Cell("bathroom_count", Field(property_data, "bathrooms", NaN)),
          Cell("", lettings),
          Cell("let_available_date",
               IF let_available_date.ok
               THEN Ok(Or(let_available_date.v, Str("Now")))
               ELSE let_available_date),
          Cell("deposit", IF deposit.ok THEN format_deposit(deposit.v) ELSE deposit),
          Cell("furnish_type", Field(lt, "furnishType", NaN)),
          Cell("let_type", Field(lt, "letType", NaN)),
          Cell("minimum_term_in_months",
               IF minimum_term.ok THEN Ok(Or(minimum_term.v, Num(0))) ELSE minimum_term) >>

\* _get_page, lines 307-338: the cells from latitude to address
cells_after(property_data, latitude, longitude) ==
    << Cell("latitude", Ok(latitude)),
       Cell("longitude", Ok(longitude)),
       Cell("google_maps_link",
            IF latitude.t # "null" /\ longitude.t # "null"
            THEN get_google_maps_url(latitude, longitude)
            ELSE Ok(NaN)),
       Cell("address", address_cell(property_data)) >>

\* what one pass of the loop over the property links comes to: the listing is
\* skipped, adds a row, or raises out of _get_page
ListingResult(kind, exc, d, disk, directions) ==
    [kind |-> kind, exc |-> exc, data |-> d, hashmap |-> disk.hashmap,
     files |-> disk.files, directions |-> directions]

\* _get_page, lines 307-340: the cells after the directions, and the row
finish_listing(d, disk, before, directions, after) ==
    IF ~FirstRaise(after).ok
    THEN ListingResult("raised", FirstRaise(after).exc, d, disk, <<>>)
    ELSE ListingResult("row", "none",
             append_all(add_directions(append_all(d, before), directions), after),
             disk, directions)

\* _get_page, lines 293-306: the directions of the listing
with_directions(d, property_data, before, latitude, longitude, directions) ==
    IF ~directions.out.ok
    THEN ListingResult("raised", directions.out.exc, d, directions, <<>>)
    ELSE finish_listing(d, directions, before, directions.out.v,
                        cells_after(property_data, latitude, longitude))

\* _get_page, lines 286-294: the location of the listing
with_location(d, disk, api, cache, config, property_data, before, location_data, resps) ==
    IF ~FirstRaise(before).ok
    THEN ListingResult("raised", FirstRaise(before).exc, d, disk, <<>>)
    ELSE IF ~location_data.ok
    THEN ListingResult("raised", location_data.exc, d, disk, <<>>)
    ELSE IF ~Contains(location_data.v, "latitude").ok
    THEN ListingResult("raised", "TypeError", d, disk, <<>>)
    ELSE with_directions(d, property_data, before,
             DictGet(location_data.v, "latitude", Null).v,
             DictGet(location_data.v, "longitude", Null).v,
             get_directions_data(disk.hashmap, disk.files, api, cache, config,
                 DictGet(location_data.v, "latitude", Null).v,
                 DictGet(location_data.v, "longitude", Null).v, resps))

\* _get_page, lines 208-285: propertyData and the cells read from it
with_property_data(d, disk, api, cache, config, property_data, property_link, resps) ==
    IF ~property_data.ok
    THEN ListingResult("raised", property_data.exc, d, disk, <<>>)
    ELSE IF ~Truthy(property_data.v)
    THEN ListingResult("skipped", "none", d, disk, <<>>)
    ELSE with_location(d, disk, api, cache, config, property_data.v,
             cells_before(property_link, property_data.v),
             DictGet(property_data.v, "location", Obj(EmptyMap)), resps)

\* _get_page, lines 186-340: one pass of the loop over the property links
scrape_listing(d, disk, api, cache, config, listing, property_link, resps) ==
    IF listing.status_code # 200
    THEN ListingResult("skipped", "none", d, disk, <<>>)
    ELSE IF ~listing.script.found
    THEN ListingResult("raised", "IndexError", d, disk, <<>>)
    ELSE IF listing.script.json.t = "invalid"
    THEN ListingResult("skipped", "none", d, disk, <<>>)
    ELSE with_property_data(d, disk, api, cache, config,
             DictGet(listing.script.json, "propertyData", Null), property_link,
             resps)

\* pd.DataFrame(data): all the columns must have the same length
same_length(d) == \A i, j \in 1..Len(d) : Len(d[i].cells) = Len(d[j].cells)

\* ------------------------------------------------------------------------
\* The listing pages of the site and the directions configuration

Merge(f, g) == [k \in DOMAIN f \cup DOMAIN g |-> IF k \in DOMAIN g THEN g[k] ELSE f[k]]

BaseData ==
    [propertySubType |-> Str("Flat"),
     prices |-> Obj([primaryPrice |-> Str("1,500 pcm")]),
     customer |-> Obj([customerProfileUrl |-> Str("/agent/1")]),
     floorplans |-> Arr(<<Obj([url |-> Str("fp1.png")])>>),
     images |-> Arr(<<Obj([url |-> Str("img1.jpg")]), Obj(EmptyMap)>>),
     bedrooms |-> Num(2),
     bathrooms |-> Num(1)]
FullLettings ==
    [lettings |-> Obj([deposit |-> Num(1200), letAvailableDate |-> Str("01/12/2026"),
                       minimumTermInMonths |-> Num(6),
                       furnishType |-> Str("Furnished"),
                       letType |-> Str("Long term")])]
EmptyLettings == [lettings |-> Obj(EmptyMap)]
FalsyLettings ==
    [lettings |-> Obj([deposit |-> Num(0), letAvailableDate |-> Str(""),
                       minimumTermInMonths |-> Null])]
Coordinates == [location |-> Obj([latitude |-> Num(51), longitude |-> Num(-1)])]
FullAddress ==
    [address |-> Obj([outcode |-> Str("SW1A"), incode |-> Str("2AA"),
                      displayAddress |->
                          TextOfTokens(<<"10", " ", "Downing", " ", "Street", ",",
                                         " ", "SW1A", " ", "2AA">>)])]
AddressNoOutcode ==
    [address |-> Obj([incode |-> Str("2AA"),
                      displayAddress |-> TextOfTokens(<<"10", " ", "Downing">>)])]

PageModel(property_data) ==
    [status_code |-> 200,
     script |-> [found |-> TRUE, json |-> Obj([propertyData |-> Obj(property_data)])]]

\* what a property link may lead to
ListingPages ==
    << [status_code |-> 404, script |-> [found |-> FALSE, json |-> NotJson]],
       [status_code |-> 200, script |-> [found |-> FALSE, json |-> NotJson]],
       [status_code |-> 200, script |-> [found |-> TRUE, json |-> NotJson]],
       [status_code |-> 200,
        script |-> [found |-> TRUE, json |-> Obj([analytics |-> Obj(EmptyMap)])]],
       PageModel(Merge(Merge(Merge(BaseData, FullLettings), Coordinates), FullAddress)),
       PageModel(Merge(Merge(BaseData, FullLettings), FullAddress)),
       PageModel(Merge(Merge(BaseData, Coordinates), FullAddress)),
       PageModel(Merge(Merge(BaseData, EmptyLettings), FullAddress)),
       PageModel(Merge(Merge(Merge(BaseData, FalsyLettings), Coordinates), FullAddress)),
       PageModel(Merge(Merge(Merge(BaseData, FullLettings), Coordinates),
                       AddressNoOutcode)),
       PageModel(Merge(BaseData, FullLettings)) >>

\* the provider answers a page's lookups with: 404, a full success, an OK
\* body with no route, a leg whose duration has a null text
PageResponses == {1, 6, 16, 18}

Work ==
    [place_id |-> "place1", mode |-> "transit", key |-> "work", label |-> "Work",
     arrival_time |-> "1700000000"]
Gym ==
    [place_id |-> "place2", mode |-> "walking", key |-> "gym", label |-> "Gym",
     arrival_time |-> None]
WorkNoArrival ==
    [place_id |-> "place1", mode |-> "transit", key |-> "work", label |-> "Work"]

\* the scraper's directions client and directions requests
PageSetups ==
    { [api |-> FALSE, config |-> <<>>],
      [api |-> TRUE, config |-> <<Work, Gym>>],
      [api |-> TRUE, config |-> <<WorkNoArrival>>] }

\* ------------------------------------------------------------------------
\* _get_page as actions

PageIdle ==
    /\ google_maps_api = FALSE
    /\ google_maps_directions_config = <<>>
    /\ data = <<>>
    /\ pagePc = "idle"
    /\ pageErr = "none"
    /\ seen = <<>>

\* _get_page, lines 147-184: the links are read and the empty columns made
PageStart(setup) ==
    /\ google_maps_api = setup.api
    /\ google_maps_directions_config = setup.config
    /\ data = EmptyData
    /\ pagePc = "scraping"
    /\ pageErr = "none"
    /\ seen = <<>>

\* one pass of the loop for the next property link, which leads to
\* ListingPages[i]
ScrapeListing(i, resps) ==
    /\ pagePc = "scraping"
    /\ Len(seen) < MaxListings
    /\ \E r \in {scrape_listing(data, [hashmap |-> hashmap, files |-> files],
                                google_maps_api, hasCache,
                                google_maps_directions_config, ListingPages[i],
                                BASE_URL \o "/properties/" \o ToString(Len(seen) + 1),
                                resps)} :
          /\ data' = r.data
          /\ hashmap' = r.hashmap
          /\ files' = r.files
          /\ pagePc' = IF r.kind = "raised" THEN "raised" ELSE "scraping"
          /\ pageErr' = r.exc
          /\ seen' = Append(seen, [listing |-> i, kind |-> r.kind,
                                   directions |-> r.directions])
    /\ UNCHANGED <<google_maps_api, google_maps_directions_config, cacheOut, written>>

\* the loop is over: return pd.DataFrame(data)
AssemblePage ==
    /\ pagePc = "scraping"
    /\ pagePc' = IF same_length(data) THEN "done" ELSE "raised"
    /\ pageErr' = IF same_length(data) THEN "none" ELSE "ValueError"
    /\ UNCHANGED <<google_maps_api, google_maps_directions_config, data, seen,
                   cacheVars>>

\* ------------------------------------------------------------------------
\* Shapes of a provider response, read off the response itself

RespStatus(i) == Responses[i].status_code
RespBody(i) == Responses[i].body

IsObject(b) == b.t = "obj"
ProviderStatusOK(b) ==
    /\ IsObject(b)
    /\ "status" \in DOMAIN b.m
    /\ b.m["status"].t = "str"
    /\ b.m["status"].s = "OK"
HasFirstLeg(b) ==
    /\ ProviderStatusOK(b)
    /\ "routes" \in DOMAIN b.m
    /\ b.m["routes"].t = "list"
    /\ Len(b.m["routes"].l) > 0
    /\ b.m["routes"].l[1].t = "obj"
    /\ "legs" \in DOMAIN b.m["routes"].l[1].m
    /\ b.m["routes"].l[1].m["legs"].t = "list"
    /\ Len(b.m["routes"].l[1].m["legs"].l) > 0
FirstLeg(b) == b.m["routes"].l[1].m["legs"].l[1]
HasText(leg, name) ==
    /\ leg.t = "obj"
    /\ name \in DOMAIN leg.m
    /\ leg.m[name].t = "obj"
    /\ "text" \in DOMAIN leg.m[name].m
TextOf(leg, name) ==
    IF leg.m[name].m["text"].t = "null" THEN None ELSE leg.m[name].m["text"].s

IsNon200(i) == RespStatus(i) # 200
ProviderNotOK(i) ==
    RespStatus(i) = 200 /\ IsObject(RespBody(i)) /\ ~ProviderStatusOK(RespBody(i))
LegLacksText(i) ==
    /\ RespStatus(i) = 200
    /\ HasFirstLeg(RespBody(i))
    /\ ~(HasText(FirstLeg(RespBody(i)), "duration")
         /\ HasText(FirstLeg(RespBody(i)), "distance"))
FullSuccess(i) ==
    /\ RespStatus(i) = 200
    /\ HasFirstLeg(RespBody(i))
    /\ HasText(FirstLeg(RespBody(i)), "duration")
    /\ HasText(FirstLeg(RespBody(i)), "distance")

ReturnedEmpty == apiOut.out.ok /\ apiOut.out.v = NoDirection
CacheUntouched == hashmap = apiOut.hmBefore /\ files = apiOut.fsBefore
OneEntryAdded ==
    /\ DOMAIN hashmap = DOMAIN apiOut.hmBefore \cup {apiOut.url}
    /\ \A k \in DOMAIN apiOut.hmBefore \ {apiOut.url} : hashmap[k] = apiOut.hmBefore[k]
    /\ DOMAIN files = DOMAIN apiOut.fsBefore \cup {hashmap[apiOut.url]}
    /\ \A q \in DOMAIN apiOut.fsBefore \ {hashmap[apiOut.url]} :
          files[q] = apiOut.fsBefore[q]
CacheMiss == apiOut.called /\ hasCache /\ ~apiOut.hadContent

\* ------------------------------------------------------------------------
\* Claims

\* C2: get_directions with a cache and no cached entry for the url: a non-200
\* response, a 200 response whose provider status is not "OK" and a 200/"OK"
\* response whose first leg lacks duration.text or distance.text each return
\* the empty direction and leave hashmap and payload files unchanged; a full
\* success returns the extracted texts and adds exactly one cache entry, keyed
\* by the request url.
C2_DirectionsOutcomes ==
    CacheMiss =>
        /\ (IsNon200(apiOut.response) \/ ProviderNotOK(apiOut.response)
              \/ LegLacksText(apiOut.response))
             => (ReturnedEmpty /\ CacheUntouched)
        /\ FullSuccess(apiOut.response)
             => /\ apiOut.out.ok
                /\ apiOut.out.v =
                     [distance |-> TextOf(FirstLeg(RespBody(apiOut.response)), "distance"),
                      duration |-> TextOf(FirstLeg(RespBody(apiOut.response)), "duration")]
                /\ OneEntryAdded

\* C3: get_directions never raises: whatever the HTTP status and the body,
\* the call returns a {distance, duration} result.
C3_NeverRaises == apiOut.called => apiOut.out.ok

\* C4: with a cache, once a call for a request url has succeeded fully, a
\* later call for the same url made while the payload file exists returns the
\* values of that success and issues no HTTP request.
C4_CachedRepeat ==
    (apiOut.called /\ hasCache /\ apiOut.prior.some /\ apiOut.hadContent)
        => /\ ~apiOut.http
           /\ apiOut.out.ok
           /\ apiOut.out.v = apiOut.prior.v

\* a repeated call answered from the cache, after the provider was asked once
C4_Witness ==
    /\ apiOut.called /\ hasCache /\ apiOut.prior.some /\ apiOut.hadContent
    /\ ~apiOut.http
    /\ apiOut.out.v = [distance |-> "9.8 km", duration |-> "25 mins"]

\* C5: the path recorded for a key is a function of (base path, namespace,
\* key, extension) of the latest create_cache_file for it; creating the key
\* again with the same namespace and extension reuses the same file; and
\* get_cached_file_content returns the content of the latest create.
C5_CacheEntries ==
    /\ \A k \in DOMAIN written :
          /\ k \in DOMAIN hashmap
          /\ hashmap[k] = <<BasePath, <<"uuid5", written[k].namespace, k>>,
                            written[k].extension>>
    /\ (cacheOut.op = "create" /\ cacheOut.sameArgs)
          => /\ hashmap[cacheOut.key] = cacheOut.pathBefore
             /\ DOMAIN files = cacheOut.pathsBefore
    /\ (cacheOut.op = "get" /\ cacheOut.key \in DOMAIN written)
          => cacheOut.ret = SomeContent(written[cacheOut.key].content)

\* a key created twice with different contents, then read back
C5_Witness ==
    /\ cacheOut.op = "get"
    /\ cacheOut.key \in DOMAIN written
    /\ cacheOut.ret = SomeContent(<<Lit("b")>>)
    /\ steps >= 3

\* ------------------------------------------------------------------------
\* Claims about the crawl

\* one of the six search prefixes, read off the parts of the url
HasSearchPrefix(u) ==
    /\ Len(u) >= 4
    /\ u[1] \in {"http", "https"}
    /\ u[2] = "://www.rightmove.co.uk/"
    /\ u[3] \in {"property-to-rent", "property-for-sale", "new-homes-for-sale"}
    /\ u[4] = "/find.html?"

\* C1: at construction and at refresh the url is accepted only if it starts
\* with one of the six search prefixes AND the initial fetch returned 200; in
\* every other case the invalid-url ValueError is raised and nothing is scraped.
C1_UrlValidation ==
    requested # <<>> =>
        IF HasSearchPrefix(self_url) /\ self_status_code = 200
        THEN crawlErr # "ValueError"
        ELSE crawlErr = "ValueError" /\ scraped = <<>>

\* the rows of the first `pages` pages of a site with `cards` rows a page
RowsOfPages(pages, cards) ==
    [i \in 1..(pages * cards) |->
        [page |-> ((i - 1) \div cards) + 1, card |-> ((i - 1) % cards) + 1]]
ResultRows ==
    [i \in 1..Len(self_results) |->
        [page |-> self_results[i].page, card |-> self_results[i].card]]

\* C6: pages are requested in increasing order from the search url (index
\* 24, 48, ... after the first page); the first non-200 response on a later
\* page ends the crawl without an error, no further page is requested, and
\* the table holds exactly the rows of the pages before it, in scrape order.
C6_Pagination ==
    /\ \A i \in 1..Len(requested) :
          /\ requested[i].url = self_url
          /\ requested[i].index = IF i = 1 THEN NoIndex ELSE (i - 1) * 24
    /\ stoppedAt > 0 =>
          /\ crawlPc = "ready"
          /\ crawlErr = "none"
          /\ Len(requested) = stoppedAt + 1
          /\ ResultRows = RowsOfPages(stoppedAt, world.cards)
          /\ \A i \in 1..Len(self_results) : self_results[i].index = i - 1

\* page 3 of 5 answered 404: the rows of pages 1 and 2 are the table
C6_Witness ==
    /\ stoppedAt = 2
    /\ pageCount = 5
    /\ world.cards = 1
    /\ Len(requested) = 3
    /\ ResultRows = <<[page |-> 1, card |-> 1], [page |-> 2, card |-> 1]>>

\* C7: page_count is min(ceil(n / 24), 42) for every displayed result count
\* n >= 0 (100 gives 5, 1008 gives 42, 2000 gives 42), and a crawl requests
\* at most 42 result pages, the first included.
C7_PageCount ==
    /\ crawlPc # "new" =>
          /\ IF world.count > 24 * 42
             THEN pageCount = 42
             ELSE 24 * (pageCount - 1) < world.count /\ world.count <= 24 * pageCount
          /\ world.count = 100 => pageCount = 5
          /\ world.count = 1008 => pageCount = 42
          /\ world.count = 2000 => pageCount = 42
    /\ Len(requested) <= 42

\* a site displaying 2000 results, crawled to the end: 42 requests
C7_Witness ==
    /\ world.count = 2000
    /\ crawlPc = "ready"
    /\ stoppedAt = 0
    /\ pageCount = 42
    /\ Len(requested) = 42

\* ------------------------------------------------------------------------
\* Claims about a results page

RowCount == Cardinality({k \in 1..Len(seen) : seen[k].kind = "row"})
RowOf(k) == Cardinality({j \in 1..k : seen[j].kind = "row"})
CellAt(key, r) == data[KeyIndex(data, key)].cells[r]
PropertyDataOf(k) == ListingPages[seen[k].listing].script.json.m["propertyData"]
LettingsOf(k) ==
    IF "lettings" \in DOMAIN PropertyDataOf(k).m
    THEN PropertyDataOf(k).m["lettings"]
    ELSE Obj(EmptyMap)
Lacks(d, key) == key \notin DOMAIN d.m \/ ~Truthy(d.m[key])

\* C8: for every listing that yields a row, a lettings object without a
\* (truthy) deposit gives the deposit cell "£0", without a (non-empty)
\* letAvailableDate gives "Now", without a (truthy) minimumTermInMonths gives
\* 0; the same when the lettings object is missing altogether.
C8_FieldDefaults ==
    \A k \in 1..Len(seen) :
        seen[k].kind = "row" =>
            /\ Lacks(LettingsOf(k), "deposit")
                 => CellAt("deposit", RowOf(k)) = Str(Pound \o "0")
            /\ Lacks(LettingsOf(k), "letAvailableDate")
                 => CellAt("let_available_date", RowOf(k)) = Str("Now")
            /\ Lacks(LettingsOf(k), "minimumTermInMonths")
                 => CellAt("minimum_term_in_months", RowOf(k)) = Num(0)

\* C9: whatever listings a page has gone through (skipped, with or without
\* coordinates, directions configured or not), every column of data, direction
\* columns included, holds one entry for each listing that was not skipped,
\* and the table can be assembled.
C9_OneRowPerListing ==
    (\A k \in 1..Len(seen) : seen[k].kind # "raised") =>
        /\ \A c \in 1..Len(data) : Len(data[c].cells) = RowCount
        /\ pagePc # "raised"

Render(x) == IF x = None THEN "Unknown" ELSE x

\* C10: with a directions client and directions requests configured, the
\* table of a page has one column for each configured key, in configuration
\* order directly before minimum_term_in_months, and each row's cell there is
\* "<duration> (<distance>)" with "Unknown" for an absent part.
C10_DirectionColumns ==
    (/\ pagePc = "done"
     /\ google_maps_api
     /\ google_maps_directions_config # <<>>
     /\ RowCount >= 1) =>
        LET n == Len(google_maps_directions_config)
            pos == KeyIndex(data, "minimum_term_in_months")
        IN /\ Len(data) = Len(DataColumns) + n
           /\ pos > n
           /\ \A j \in 1..n :
                 /\ data[pos - n + j - 1].key = google_maps_directions_config[j].key
                 /\ \A k \in 1..Len(seen) :
                       seen[k].kind = "row" =>
                          /\ Len(seen[k].directions) = n
                          /\ data[pos - n + j - 1].cells[RowOf(k)] =
                               Str(Render(seen[k].directions[j].value.duration)
                                   \o " (" \o
                                   Render(seen[k].directions[j].value.distance)
                                   \o ")")

\* the listing page gives no propertyData: not answered 200, no parseable
\* window.PAGE_MODEL, or a blob without propertyData
Unusable(k) ==
    LET p == ListingPages[seen[k].listing]
    IN \/ p.status_code # 200
       \/ ~p.script.found
       \/ p.script.json.t # "obj"
       \/ "propertyData" \notin DOMAIN p.script.json.m

\* C13: every listing whose page is unusable is skipped: it adds nothing to
\* any column and _get_page goes on with the next listing.
C13_ListingFailuresSkipped ==
    /\ \A k \in 1..Len(seen) : Unusable(k) => seen[k].kind = "skipped"
    /\ (\A k \in 1..Len(seen) : Unusable(k)) =>
          /\ pagePc # "raised"
          /\ \A c \in 1..Len(data) : data[c].cells = <<>>

HasCoordinates(k) ==
    /\ "location" \in DOMAIN PropertyDataOf(k).m
    /\ Truthy(DictGet(PropertyDataOf(k).m["location"], "latitude", Null).v)
    /\ Truthy(DictGet(PropertyDataOf(k).m["location"], "longitude", Null).v)

\* the address the listing should get: the codes that exist, then the display
\* address without them, without a trailing comma, whitespace collapsed
ExpectedAddress(k) ==
    LET given == IF "address" \in DOMAIN PropertyDataOf(k).m
                 THEN PropertyDataOf(k).m["address"] ELSE Obj(EmptyMap)
        code(key) == IF key \in DOMAIN given.m /\ given.m[key].t = "str"
                     THEN given.m[key].s ELSE ""
        display == IF "displayAddress" \in DOMAIN given.m
                   THEN given.m["displayAddress"].w ELSE <<>>
        cleaned == replace_all_whitespaces(rstrip_comma(
                       str_replace(str_replace(display, code("outcode")),
                                   code("incode"))))
        codes == IF code("outcode") \o code("incode") # ""
                 THEN <<code("outcode") \o code("incode")>> ELSE <<>>
    IN TextOfTokens(codes
                    \o (IF codes # <<>> /\ cleaned # <<>> THEN <<",", " ">> ELSE <<>>)
                    \o cleaned)

\* C17: whatever the address object holds, the address cell of the listing's
\* row is the composed address or the empty marker, and no exception of the
\* address composition leaves _get_page.
C17_AddressCompletes ==
    \A k \in 1..Len(seen) :
        ~Unusable(k) =>
            /\ seen[k].kind = "row" =>
                  CellAt("address", RowOf(k)) \in {ExpectedAddress(k), NaN}
            /\ seen[k].kind = "raised" =>
                  \/ address_cell(PropertyDataOf(k)).ok
                  \/ pageErr # address_cell(PropertyDataOf(k)).exc

\* ------------------------------------------------------------------------
\* scrapers.py: save_results_to_csv, and the header mapping of main.py
\*
\* A DataFrame is the list of its columns, [key, cells], like the dict it is
\* built from.  The strings of an exported table are kept as lists of
\* characters, so that joining over a string can be told from joining over a
\* list of strings.

MaxRows == 2
MaxExports == 2

Chars(c) == [t |-> "chars", c |-> c]

\* sep.join(parts)
RECURSIVE join(_, _)
join(parts, sep) ==
    IF parts = <<>> THEN <<>>
    ELSE IF Len(parts) = 1 THEN parts[1]
    ELSE parts[1] \o sep \o join(Tail(parts), sep)

\* str(x) for a cell or an element of a list cell
RECURSIVE py_str(_)
py_str(v) ==
    CASE v.t = "chars" -> v.c
      [] v.t = "nan" -> <<"n", "a", "n">>
      [] v.t = "list" ->
            <<"[">>
            \o join([i \in 1..Len(v.l) |-> <<"'">> \o py_str(v.l[i]) \o <<"'">>],
                    <<",", " ">>)
            \o <<"]">>

\* '\n'.join(map(str, img)): img is iterated, a string char by char
join_lines(img) ==
    CASE img.t = "list" ->
            Ok(Chars(join([i \in 1..Len(img.l) |-> py_str(img.l[i])], <<"\n">>)))
      [] img.t = "chars" ->
            Ok(Chars(join([i \in 1..Len(img.c) |-> <<img.c[i]>>], <<"\n">>)))
      [] img.t = "nan" -> Raise("TypeError")

\* key in headers
has_header(headers, key) == \E i \in 1..Len(headers) : headers[i].key = key

\* results[name] = ['\n'.join(map(str, x)) for x in results[name]]
format_column(results, name) ==
    LET col == KeyIndex(results, name)
    IN IF col = 0 THEN Raise("KeyError")
       ELSE IF \E r \in 1..Len(results[col].cells) : ~join_lines(results[col].cells[r]).ok
       THEN Raise("TypeError")
       ELSE Ok([i \in 1..Len(results) |->
                  IF i = col
                  THEN [key |-> name,
                        cells |-> [r \in 1..Len(results[col].cells) |->
                                      join_lines(results[col].cells[r]).v]]
                  ELSE results[i]])

\* results.rename(columns=headers)
rename(results, headers) ==
    [i \in 1..Len(results) |->
        [key |-> IF has_header(headers, results[i].key)
                 THEN headers[CHOOSE h \in 1..Len(headers) :
                                  headers[h].key = results[i].key].value
                 ELSE results[i].key,
         cells |-> results[i].cells]]

\* list(headers.values())
filtered_keys(headers) == [i \in 1..Len(headers) |-> headers[i].value]

\* the columns of the frame that carry the label, in frame order
RECURSIVE columns_named(_, _)
columns_named(frame, label) ==
    IF frame = <<>> THEN <<>>
    ELSE (IF Head(frame).key = label THEN <<Head(frame)>> ELSE <<>>)
         \o columns_named(Tail(frame), label)

RECURSIVE select_columns(_, _)
select_columns(frame, labels) ==
    IF labels = <<>> THEN <<>>
    ELSE columns_named(frame, Head(labels)) \o select_columns(frame, Tail(labels))

\* the text of a cell in the file: a missing value is written as nothing
csv_cell(v) == IF v.t = "nan" THEN <<>> ELSE py_str(v)

\* results.to_csv(path, header=True, index=False, columns=filtered_keys):
\* a label that is not a column of the frame is a KeyError (pandas 1.0 and later)
to_csv(frame, columns) ==
    IF \E i \in 1..Len(columns) : columns_named(frame, columns[i]) = <<>>
    THEN Raise("KeyError")
    ELSE LET out == select_columns(frame, columns)
         IN Ok([header |-> [i \in 1..Len(out) |-> out[i].key],
                rows |-> [r \in 1..Len(frame[1].cells) |->
                            [i \in 1..Len(out) |-> csv_cell(out[i].cells[r])]]])

\* save_results_to_csv, lines 419-436, on the table as formatted so far
write_csv(results, headers) ==
    [results |-> results, out |-> to_csv(rename(results, headers), filtered_keys(headers))]

\* save_results_to_csv, lines 418-420, after the images column was seen to
format_floorplans(results, headers) ==
    IF ~has_header(headers, "floorplan_urls")
    THEN write_csv(results, headers)
    ELSE IF ~format_column(results, "floorplan_urls").ok
    THEN [results |-> results, out |-> format_column(results, "floorplan_urls")]
    ELSE write_csv(format_column(results, "floorplan_urls").v, headers)

\* save_results_to_csv: the table left in self._results and the file written,
\* or the exception raised
save_results_to_csv(results, headers) ==
    IF ~has_header(headers, "images")
    THEN format_floorplans(results, headers)
    ELSE IF ~format_column(results, "images").ok
    THEN [results |-> results, out |-> format_column(results, "images")]
    ELSE format_floorplans(format_column(results, "images").v, headers)

\* main.py, lines 118-138: the fixed headers, then one per directions request
csv_headers(directions) ==
    LET fixed == << [key |-> "type", value |-> "Type"],
                    [key |-> "price", value |-> "Price (per month)"],
                    [key |-> "deposit", value |-> "Deposit"],
                    [key |-> "address", value |-> "Address"],
                    [key |-> "bedroom_count", value |-> "Bedrooms"],
                    [key |-> "bathroom_count", value |-> "Bathrooms"],
                    [key |-> "let_available_date", value |-> "Let Available From"],
                    [key |-> "furnish_type", value |-> "Furnish Type"],
                    [key |-> "let_type", value |-> "Let Type"],
                    [key |-> "minimum_term_in_months", value |-> "Minimum Term (in months)"],
                    [key |-> "latitude", value |-> "Latitude"],
                    [key |-> "longitude", value |-> "Longitude"],
                    [key |-> "google_maps_link", value |-> "Google Maps"],
                    [key |-> "url", value |-> "Link"],
                    [key |-> "floorplan_urls", value |-> "Floorplans"],
                    [key |-> "agent_url", value |-> "Agent"] >>
        add[i \in 0..Len(directions)] ==
            IF i = 0 THEN fixed
            ELSE dict_set(add[i - 1], directions[i].key, directions[i].label)
    IN add[Len(directions)]

\* the url lists a listing can carry
UrlLists ==
    { Arr(<<>>), Arr(<<Chars(<<"a", "b">>)>>), Arr(<<Chars(<<"a">>), Chars(<<"b">>)>>) }

\* the table a crawl leaves in self._results: the columns of _get_page, the
\* direction column when a listing with coordinates made it, search_date
ExportTable(lists, directions) ==
    LET cols == IF directions THEN insert_column(EmptyData, "work") ELSE EmptyData
        cell(key, r) ==
            IF key \in {"images", "floorplan_urls"} THEN lists[r] ELSE Chars(<<"x">>)
    IN [i \in 1..Len(cols) |->
           [key |-> cols[i].key,
            cells |-> [r \in 1..Len(lists) |-> cell(cols[i].key, r)]]]
       \o <<[key |-> "search_date", cells |-> [r \in 1..Len(lists) |-> Chars(<<"t">>)]]>>

ExportTables ==
    { ExportTable(lists, directions) :
        lists \in UNION {[1..n -> UrlLists] : n \in 0..MaxRows}, directions \in BOOLEAN }

\* the mappings passed to save_results_to_csv
ExportHeaders ==
    { << [key |-> "price", value |-> "Price"], [key |-> "url", value |-> "Link"] >>,
      << [key |-> "images", value |-> "Images"],
         [key |-> "floorplan_urls", value |-> "Floorplans"] >>,
      << [key |-> "price", value |-> "url"], [key |-> "address", value |-> "Address"] >>,
      csv_headers(<<>>),
      csv_headers(<<Work>>) }

NoExport == [op |-> "none"]

ExportIdle == csv_files = <<>> /\ exportOut = NoExport

\* one call of save_results_to_csv on a constructed scraper
SaveResultsToCsv(headers) ==
    /\ crawlPc = "ready"
    /\ \E r \in {save_results_to_csv(self_results, headers)} :
          /\ self_results' = r.results
          /\ exportOut' = [op |-> "save_results_to_csv", headers |-> headers,
                           before |-> self_results, out |-> r.out]
          /\ csv_files' = Append(csv_files, [headers |-> headers, out |-> r.out])
    /\ UNCHANGED <<world, crawlPc, constructed, self_url, self_status_code, acc,
                   loop_p, pageCount, crawlErr, requested, scraped, stoppedAt>>

\* ------------------------------------------------------------------------
\* Claims about the export

\* C11: whatever the stored table and the header mapping, the export writes a
\* file whose columns are exactly the mapped header texts, one per entry of
\* the mapping and in the mapping's order.
C11_CsvColumns ==
    exportOut.op = "save_results_to_csv" =>
        /\ exportOut.out.ok
        /\ exportOut.out.v.header = filtered_keys(exportOut.headers)

\* C20: an export leaves the stored table as it found it, and two exports in
\* a row with the same mapping write the same file.
C20_ExportFrame ==
    /\ exportOut.op = "save_results_to_csv" => self_results = exportOut.before
    /\ \A i \in 1..(Len(csv_files) - 1) :
          csv_files[i].headers = csv_files[i + 1].headers =>
              csv_files[i].out = csv_files[i + 1].out

\* ------------------------------------------------------------------------
\* main.py: is_valid_config and the run
\*
\* config.yaml as yaml.safe_load returns it: a mapping is Obj, a list Arr, a
\* string Str, an empty file or an empty item Null.

MaxDirections == 2

NoConfig == [t |-> "no file"]

\* is_valid_config while it runs: the exception that left it, is_valid, and
\* the messages passed to logger.critical
Validation(exc, is_valid, logged) == [exc |-> exc, is_valid |-> is_valid, reports |-> logged]

\* if key not in d: logger.critical(message); is_valid = False
require_key(st, d, key, message) ==
    IF st.exc # "none" THEN st
    ELSE IF ~Contains(d, key).ok THEN Validation(Contains(d, key).exc, st.is_valid, st.reports)
    ELSE IF ~Contains(d, key).v THEN Validation("none", FALSE, Append(st.reports, message))
    ELSE st

needs(number, key) ==
    "GOOGLE_MAPS_DIRECTIONS_DATA #" \o ToString(number) \o ": " \o key
    \o " needs to be provided"

\* is_valid_config, lines 45-58: one pass of the loop over the entries
require_entry(st, direction_config, number) ==
    require_key(
        require_key(
            require_key(
                require_key(st, direction_config, "place_id", needs(number, "place_id")),
                direction_config, "mode", needs(number, "mode")),
            direction_config, "key", needs(number, "key")),
        direction_config, "label", needs(number, "label"))

RECURSIVE require_entries(_, _, _)
require_entries(st, entries, i) ==
    IF i > Len(entries) THEN st
    ELSE require_entries(require_entry(st, entries[i], i), entries, i + 1)

\* is_valid_config, lines 38-58
require_directions(st, cfg) ==
    IF st.exc # "none" THEN st
    ELSE IF ~Contains(cfg, "GOOGLE_MAPS_DIRECTIONS_DATA").ok
    THEN Validation(Contains(cfg, "GOOGLE_MAPS_DIRECTIONS_DATA").exc, st.is_valid, st.reports)
    ELSE IF ~Contains(cfg, "GOOGLE_MAPS_DIRECTIONS_DATA").v THEN st
    ELSE IF cfg.m["GOOGLE_MAPS_DIRECTIONS_DATA"].t # "list"
    THEN Validation("none", FALSE,
                    Append(st.reports, "GOOGLE_MAPS_DIRECTIONS_DATA: has to be a list"))
    ELSE require_entries(st, cfg.m["GOOGLE_MAPS_DIRECTIONS_DATA"].l, 1)

\* is_valid_config: what it returns or raises, and what it has logged
is_valid_config(cfg) ==
    IF cfg = NoConfig
    THEN Validation("none", FALSE, <<"Configuration file config.yaml not found">>)
    ELSE require_directions(
            require_key(
                require_key(
                    require_key(Validation("none", TRUE, <<>>),
                                cfg, "RIGHTMOVE_URL", "RIGHTMOVE_URL: not found"),
                    cfg, "CSV_FILE_PATH", "CSV_FILE_PATH: not found"),
                cfg, "BASE_CACHE_FOLDER_PATH", "BASE_CACHE_FOLDER_PATH: not found"),
            cfg)

\* the record with the given keys, every value a string
Mapping(keys) == Obj([k \in keys |-> Str("v")])

RequiredKeys == {"RIGHTMOVE_URL", "CSV_FILE_PATH", "BASE_CACHE_FOLDER_PATH"}
EntryKeys == {"place_id", "mode", "key", "label"}

\* the entries of GOOGLE_MAPS_DIRECTIONS_DATA: complete, with and without
\* arrival_time, lacking keys, and an empty list item
DirectionEntries ==
    { Mapping(EntryKeys), Mapping(EntryKeys \cup {"arrival_time"}), Mapping({}), Null,
      Mapping({"mode", "label"}) }
    \cup { Mapping(EntryKeys \ {k}) : k \in EntryKeys }

DirectionLists == UNION {[1..n -> DirectionEntries] : n \in 0..MaxDirections}

\* config.yaml: missing, empty, or a mapping
Configs ==
    { NoConfig, Null }
    \cup { Mapping(keys) : keys \in SUBSET RequiredKeys }
    \cup { Obj([k \in keys \cup {"GOOGLE_MAPS_DIRECTIONS_DATA"} |->
                  IF k = "GOOGLE_MAPS_DIRECTIONS_DATA" THEN d ELSE Str("v")]) :
             keys \in SUBSET RequiredKeys, d \in {Str("v")} \cup {Arr(l) : l \in DirectionLists} }

MainIdle ==
    /\ config_yaml = NoConfig
    /\ mainPc = "idle"
    /\ reports = <<>>
    /\ network = FALSE
    /\ csv_written = FALSE

\* the script is started in a directory whose config.yaml is cfg
MainStart(cfg) ==
    /\ config_yaml = cfg
    /\ mainPc = "start"
    /\ reports = <<>>
    /\ network = FALSE
    /\ csv_written = FALSE

\* main.py, lines 85-87: an exception of is_valid_config and the SystemExit
\* of exit() both end in the except clause of line 147
Validate ==
    /\ mainPc = "start"
    /\ \E r \in {is_valid_config(config_yaml)} :
          /\ reports' = r.reports
          /\ mainPc' = IF r.exc = "none" /\ r.is_valid THEN "validated" ELSE "ended"
    /\ UNCHANGED <<config_yaml, network, csv_written>>

\* main.py, lines 90-115: the scraper is built, which requests the search
\* pages; raised tells whether an exception left it
Crawl(raised) ==
    /\ mainPc = "validated"
    /\ network' = TRUE
    /\ mainPc' = IF raised THEN "ended" ELSE "crawled"
    /\ UNCHANGED <<config_yaml, reports, csv_written>>

\* main.py, lines 117-145: the export; raised tells whether it raised
Export(raised) ==
    /\ mainPc = "crawled"
    /\ csv_written' = ~raised
    /\ mainPc' = "ended"
    /\ UNCHANGED <<config_yaml, reports, network>>

\* ------------------------------------------------------------------------
\* Claims about the run

\* the violations of a configuration, as the messages that report them
Lacking(d, keys) == IF d.t = "obj" THEN keys \ DOMAIN d.m ELSE keys

EntryViolations(cfg) ==
    IF cfg = NoConfig \/ cfg.t # "obj" THEN {}
    ELSE IF "GOOGLE_MAPS_DIRECTIONS_DATA" \notin DOMAIN cfg.m THEN {}
    ELSE IF cfg.m["GOOGLE_MAPS_DIRECTIONS_DATA"].t # "list"
    THEN {"GOOGLE_MAPS_DIRECTIONS_DATA: has to be a list"}
    ELSE LET entries == cfg.m["GOOGLE_MAPS_DIRECTIONS_DATA"].l
         IN UNION { {needs(i, k) : k \in Lacking(entries[i], EntryKeys)} :
                      i \in 1..Len(entries) }

Violations(cfg) ==
    IF cfg = NoConfig THEN {"Configuration file config.yaml not found"}
    ELSE {k \o ": not found" : k \in Lacking(cfg, RequiredKeys)} \cup EntryViolations(cfg)

\* config.yaml with the given directions requests
YamlOf(directions) ==
    Obj([k \in RequiredKeys \cup {"GOOGLE_MAPS_DIRECTIONS_DATA"} |->
           IF k = "GOOGLE_MAPS_DIRECTIONS_DATA"
           THEN Arr([i \in 1..Len(directions) |-> Mapping(DOMAIN directions[i])])
           ELSE Str("v")])

NoArrivalTime ==
    {i \in 1..Len(google_maps_directions_config) :
        "arrival_time" \notin DOMAIN google_maps_directions_config[i]}

\* C14: directions requests without arrival_time pass validation, and every
\* listing with coordinates gets its row, with a cell for each such request.
C14_ArrivalTimeOptional ==
    (google_maps_api /\ NoArrivalTime # {}) =>
        /\ is_valid_config(YamlOf(google_maps_directions_config)).is_valid
        /\ \A k \in 1..Len(seen) :
              (~Unusable(k) /\ HasCoordinates(k) /\ address_cell(PropertyDataOf(k)).ok) =>
                  /\ seen[k].kind = "row"
                  /\ \A i \in NoArrivalTime :
                        KeyIndex(data, google_maps_directions_config[i].key) # 0

\* C12: a run whose configuration has a violation reports every violation,
\* issues no network request and writes no CSV file.
C12_ValidationGates ==
    (mainPc # "start" /\ Violations(config_yaml) # {}) =>
        /\ {reports[i] : i \in 1..Len(reports)} = Violations(config_yaml)
        /\ mainPc = "ended"
        /\ ~network
        /\ ~csv_written

\* ------------------------------------------------------------------------
\* helpers.py called on its own

MaxQuarterDegrees == 8

\* the coordinates of the documentation, and every quarter of a degree
\* around zero
Degrees ==
    {515074, -338688, 23522, -1278}
    \cup {k * (DegreeUnits \div 4) : k \in (0 - MaxQuarterDegrees)..MaxQuarterDegrees}

\* a leg of a directions response, by what its duration is
LegWith(duration) == Obj([duration |-> duration, distance |-> Obj([text |-> Str("1 km")])])

\* the structures handed to nested_key_exists
Structures ==
    { Obj([a |-> Obj([b |-> Obj([c |-> Num(1)])])]),
      Obj([a |-> Obj([b |-> Null])]),
      Obj([a |-> Obj(EmptyMap)]),
      Obj(EmptyMap),
      LegWith(Obj([text |-> Str("5 mins")])),
      LegWith(Obj([value |-> Num(300)])),
      LegWith(Str("5 mins")),
      LegWith(Num(300)),
      LegWith(Null),
      LegWith(Arr(<<>>)) }

KeyPaths ==
    { <<>>, <<"a">>, <<"a", "b">>, <<"a", "b", "c">>, <<"a", "b", "c", "d">>,
      <<"a", "x">>, <<"x">>, <<"x", "a">>, <<"duration">>, <<"duration", "text">>,
      <<"distance", "text">>, <<"distance", "text", "value">> }

NoHelperCall == [op |-> "none"]

HelperIdle == helperOut = NoHelperCall

DegToDms(deg, type) ==
    helperOut' = [op |-> "deg_to_dms", deg |-> deg, type |-> type,
                  parts |-> dms(deg, type), out |-> deg_to_dms(deg, type)]

NestedKeyExists(dictionary, nested_keys) ==
    helperOut' = [op |-> "nested_key_exists", dictionary |-> dictionary,
                  nested_keys |-> nested_keys,
                  out |-> nested_key_exists(dictionary, nested_keys)]

\* ------------------------------------------------------------------------
\* Claims about the helpers

\* C15: the hemisphere letter of deg_to_dms follows the sign of the
\* coordinate: the first letter of the axis pair (N, W) for an input that is
\* not negative, the second (S, E) for a negative one, also when the integer
\* degree part is zero.
C15_Hemisphere ==
    helperOut.op = "deg_to_dms" =>
        helperOut.parts.compass_str =
            (IF helperOut.type = "lat"
             THEN (IF helperOut.deg < 0 THEN "S" ELSE "N")
             ELSE (IF helperOut.deg < 0 THEN "E" ELSE "W"))

\* following the keys of a path in turn, each one is found in a mapping
RECURSIVE PathFound(_, _)
PathFound(dictionary, nested_keys) ==
    \/ nested_keys = <<>>
    \/ /\ dictionary.t = "obj"
       /\ Head(nested_keys) \in DOMAIN dictionary.m
       /\ PathFound(dictionary.m[Head(nested_keys)], Tail(nested_keys))

\* C16: nested_key_exists does not raise, and returns whether every key of
\* the path is found in turn.
C16_NestedKeyExists ==
    helperOut.op = "nested_key_exists" =>
        /\ helperOut.out.ok
        /\ helperOut.out.v = PathFound(helperOut.dictionary, helperOut.nested_keys)

\* ------------------------------------------------------------------------
\* caches.py: create_cache_file step by step, by processes sharing a cache
\*
\* Each process has its own FileCache on the same base path.  The steps of a
\* call are the file operations in program order: json.load of the hashmap
\* file (line 54), open("w+") which empties it (line 55), the write of the
\* dumped hashmap_data which lands when the with block closes the file (lines
\* 56-59), and the write of the payload (lines 38-39).  A process may die
\* between any two of them.

MaxInsertions == 2

Procs == {1, 2}
ProcKeys == {"a", "bb"}

\* len(key)
key_len(key) == IF key = "a" THEN 1 ELSE 2

\* len(json.dumps(hm)): braces, and for each entry the quoted key, ": ", the
\* quoted path of base path, uuid and extension, and ", " between entries
RECURSIVE dumps_len(_)
dumps_len(hm) ==
    IF DOMAIN hm = {} THEN 2
    ELSE LET k == CHOOSE x \in DOMAIN hm : TRUE
             rest == [x \in DOMAIN hm \ {k} |-> hm[x]]
         IN key_len(k) + 69 + (IF DOMAIN rest = {} THEN 0 ELSE 2) + dumps_len(rest)

\* _hashmap.json holding the dump of hm
Dumped(hm) == [s |-> "ok", size |-> dumps_len(hm)]

\* f.write(text) at offset 0 of a file that now holds size bytes: text that is
\* shorter leaves the tail of the old content behind it
overwrite(file, hm) ==
    IF file.s = "empty" \/ dumps_len(hm) >= file.size
    THEN Dumped(hm)
    ELSE [s |-> "corrupt", size |-> file.size]

Idle(n) == [pc |-> "idle", calls |-> n, key |-> "", hashmap_data |-> EmptyMap,
            exc |-> "none"]

ProcIdle ==
    /\ hashmapFile = Dumped(EmptyMap)
    /\ procs = <<>>
    /\ inserted = {}

\* create_cache_file is called; line 54: hashmap_data = self.hashmap
ReadHashmap(p, hash_key) ==
    /\ procs[p].pc = "idle"
    /\ procs[p].calls < MaxInsertions
    /\ procs' = [procs EXCEPT ![p] =
                    IF hashmapFile.s = "ok"
                    THEN [pc |-> "read", calls |-> @.calls + 1, key |-> hash_key,
                          hashmap_data |-> hashmap, exc |-> "none"]
                    ELSE [Idle(@.calls + 1) EXCEPT !.exc = "JSONDecodeError"]]
    /\ UNCHANGED <<hashmap, files, hashmapFile, inserted>>

\* line 55: open("w+") empties the file
OpenHashmap(p) ==
    /\ procs[p].pc = "read"
    /\ hashmapFile' = [s |-> "empty", size |-> 0]
    /\ hashmap' = EmptyMap
    /\ procs' = [procs EXCEPT ![p].pc = "open"]
    /\ UNCHANGED <<files, inserted>>

\* lines 56-59: the key is set in hashmap_data and the dump written
WriteHashmap(p) ==
    /\ procs[p].pc = "open"
    /\ \E hm \in {add_file_to_hashmap(procs[p].hashmap_data, procs[p].key, "json",
                                      NAMESPACE_URL)} :
          /\ hashmapFile' = overwrite(hashmapFile, hm)
          /\ hashmap' = IF overwrite(hashmapFile, hm).s = "ok" THEN hm ELSE EmptyMap
          /\ procs' = [procs EXCEPT ![p].pc = "written", ![p].hashmap_data = hm]
    /\ inserted' = inserted \cup {procs[p].key}
    /\ UNCHANGED files

\* create_cache_file, lines 38-40: the payload is written
WritePayload(p) ==
    /\ procs[p].pc = "written"
    /\ files' = write_file(files, procs[p].hashmap_data[procs[p].key], <<"content">>)
    /\ procs' = [procs EXCEPT ![p] = Idle(@.calls)]
    /\ UNCHANGED <<hashmap, hashmapFile, inserted>>

\* the process dies inside create_cache_file
Crash(p) ==
    /\ procs[p].pc \in {"read", "open", "written"}
    /\ procs' = [procs EXCEPT ![p].pc = "crashed"]
    /\ UNCHANGED <<hashmap, files, hashmapFile, inserted>>

\* ------------------------------------------------------------------------
\* Claims about processes sharing a cache

\* C18: with a single process, in every state, the states between the two
\* writes of create_cache_file included, every key of the hashmap maps to a
\* payload file that has been written.
C18_PayloadBeforeHashmap ==
    DOMAIN procs = {1} => \A k \in DOMAIN hashmap : hashmap[k] \in DOMAIN files

\* C19: with a single process, whenever it is between two calls, the hashmap
\* file is intact and holds every key inserted so far.
C19_SingleWriter ==
    (DOMAIN procs = {1} /\ procs[1].pc = "idle") =>
        /\ hashmapFile.s = "ok"
        /\ inserted \subseteq DOMAIN hashmap

\* two processes have each completed one insertion, of different keys, and
\* the hashmap holds one of the two keys only
C19_Witness ==
    /\ DOMAIN procs = Procs
    /\ \A p \in Procs : procs[p] = Idle(1)
    /\ inserted = ProcKeys
    /\ hashmapFile.s = "ok"
    /\ Cardinality(DOMAIN hashmap) = 1

\* the parts of the program a specification does not exercise
RestIdle == ExportIdle /\ MainIdle /\ HelperIdle /\ ProcIdle

\* ------------------------------------------------------------------------
\* Specifications

Step(max) == steps < max /\ steps' = steps + 1

CrawlIdle == CrawlNew /\ world = [count |-> 0, cards |-> 0, urls |-> {}]

InitCache == CacheSetup /\ ApiIdle /\ CrawlIdle /\ PageIdle /\ RestIdle /\ steps = 0

NextCache ==
    \/ \E k \in CacheKeys, c \in CacheContents, e \in Extensions, n \in Namespaces :
          /\ CreateCacheFile(k, c, e, n)
          /\ Step(MaxCacheOps)
          /\ UNCHANGED <<apiVars, crawlVars, pageVars, restVars>>
    \/ \E k \in CacheKeys :
          /\ GetCachedFileContent(k)
          /\ Step(MaxCacheOps)
          /\ UNCHANGED <<apiVars, crawlVars, pageVars, restVars>>

SpecCache == InitCache /\ [][NextCache]_vars

InitApi == CacheSetup /\ ApiSetup /\ CrawlIdle /\ PageIdle /\ RestIdle /\ steps = 0

NextApi ==
    \/ \E args \in DirectionArgs, i \in 1..Len(Responses) :
          GetDirections(args, i) /\ Step(MaxApiCalls)
          /\ UNCHANGED <<crawlVars, pageVars, restVars>>
    \/ \E path \in DOMAIN files :
          DeleteFile(path) /\ UNCHANGED <<steps, crawlVars, pageVars, restVars>>

SpecApi == InitApi /\ [][NextApi]_vars

NextCrawl ==
    \/ \E u \in world.urls, sc \in PageStatusCodes, o \in PageOutcomes(world.cards) :
          Construct(u, sc, o) /\ UNCHANGED <<cacheVars, apiVars, steps, pageVars, restVars>>
    \/ \E u \in world.urls \cup {NoUrl}, sc \in PageStatusCodes,
          o \in PageOutcomes(world.cards) :
          Refresh(u, sc, o) /\ UNCHANGED <<cacheVars, apiVars, steps, pageVars, restVars>>
    \/ \E sc \in PageStatusCodes, o \in PageOutcomes(world.cards) :
          FetchPage(sc, o) /\ UNCHANGED <<cacheVars, apiVars, steps, pageVars, restVars>>

\* a crawl of a site with few results, through any of the urls
InitCrawl ==
    /\ CacheSetup /\ ApiIdle /\ CrawlNew /\ PageIdle /\ RestIdle /\ steps = 0
    /\ world \in [count : CrawlCounts, cards : 0..MaxCards, urls : {Urls}]

SpecCrawl == InitCrawl /\ [][NextCrawl]_vars

\* a crawl of a site with any displayed result count, whose pages list no cards
InitPageCount ==
    /\ CacheSetup /\ ApiIdle /\ CrawlNew /\ PageIdle /\ RestIdle /\ steps = 0
    /\ world \in [count : 0..MaxResultCount, cards : {0},
                  urls : {{SearchUrl("https", "property-to-rent")}}]

SpecPageCount == InitPageCount /\ [][NextCrawl]_vars

NextPage ==
    \/ \E i \in 1..Len(ListingPages),
          resps \in [1..Len(google_maps_directions_config) -> PageResponses] :
          ScrapeListing(i, resps) /\ UNCHANGED <<apiVars, crawlVars, steps, restVars>>
    \/ AssemblePage /\ UNCHANGED <<apiVars, crawlVars, steps, restVars>>

\* one results page scraped by a scraper whose directions client has a cache
InitPage ==
    /\ CacheSetup /\ CrawlIdle /\ RestIdle /\ steps = 0
    /\ hasCache = TRUE /\ apiOut = NoCall /\ succeeded = EmptyMap
    /\ \E setup \in PageSetups : PageStart(setup)

SpecPage == InitPage /\ [][NextPage]_vars

\* exports of the table a finished crawl left in the scraper
InitExport ==
    /\ CacheSetup /\ ApiIdle /\ PageIdle /\ RestIdle /\ steps = 0
    /\ world = [count |-> 0, cards |-> 0, urls |-> {}]
    /\ crawlPc = "ready"
    /\ constructed = TRUE
    /\ self_url = NoUrl
    /\ self_status_code = 200
    /\ self_results \in ExportTables
    /\ acc = <<>>
    /\ loop_p = 0
    /\ pageCount = 0
    /\ crawlErr = "none"
    /\ requested = <<>>
    /\ scraped = <<>>
    /\ stoppedAt = 0

NextExport ==
    \E headers \in ExportHeaders :
       /\ SaveResultsToCsv(headers)
       /\ Step(MaxExports)
       /\ UNCHANGED <<cacheVars, apiVars, pageVars, mainVars, helperVars, procVars>>

SpecExport == InitExport /\ [][NextExport]_vars

\* one run of main.py for each config.yaml
InitMain ==
    /\ CacheSetup /\ ApiIdle /\ CrawlIdle /\ PageIdle /\ steps = 0
    /\ ExportIdle /\ HelperIdle /\ ProcIdle
    /\ \E cfg \in Configs : MainStart(cfg)

NextMain ==
    \/ Validate /\ UNCHANGED <<cacheVars, apiVars, crawlVars, pageVars, steps, exportVars,
                             helperVars, procVars>>
    \/ \E raised \in BOOLEAN :
          /\ Crawl(raised)
          /\ UNCHANGED <<cacheVars, apiVars, crawlVars, pageVars, steps, exportVars,
                         helperVars, procVars>>
    \/ \E raised \in BOOLEAN :
          /\ Export(raised)
          /\ UNCHANGED <<cacheVars, apiVars, crawlVars, pageVars, steps, exportVars,
                         helperVars, procVars>>

SpecMain == InitMain /\ [][NextMain]_vars

\* calls of the helpers of helpers.py
InitHelpers ==
    /\ CacheSetup /\ ApiIdle /\ CrawlIdle /\ PageIdle /\ steps = 0
    /\ ExportIdle /\ MainIdle /\ HelperIdle /\ ProcIdle

NextHelpers ==
    \/ \E deg \in Degrees, type \in {"lat", "lon"} :
          /\ DegToDms(deg, type)
          /\ UNCHANGED <<cacheVars, apiVars, crawlVars, pageVars, steps, exportVars,
                         mainVars, procVars>>
    \/ \E dictionary \in Structures, nested_keys \in KeyPaths :
          /\ NestedKeyExists(dictionary, nested_keys)
          /\ UNCHANGED <<cacheVars, apiVars, crawlVars, pageVars, steps, exportVars,
                         mainVars, procVars>>

SpecHelpers == InitHelpers /\ [][NextHelpers]_vars

\* one process, or two, inserting into the same cache
InitProcs ==
    /\ CacheSetup /\ ApiIdle /\ CrawlIdle /\ PageIdle /\ steps = 0
    /\ ExportIdle /\ MainIdle /\ HelperIdle
    /\ hashmapFile = Dumped(EmptyMap)
    /\ \E running \in {{1}, Procs} : procs = [p \in running |-> Idle(0)]
    /\ inserted = {}

NextProcs ==
    \E p \in DOMAIN procs :
       /\ \/ \E hash_key \in ProcKeys : ReadHashmap(p, hash_key)
          \/ OpenHashmap(p)
          \/ WriteHashmap(p)
          \/ WritePayload(p)
          \/ Crash(p)
       /\ UNCHANGED <<cacheOut, written, apiVars, crawlVars, pageVars, steps, exportVars,
                      mainVars, helperVars>>

SpecProcs == InitProcs /\ [][NextProcs]_vars

====
